---- MODULE Spec2Model ----
(***************************************************************************)
(* A model of deepvoice3_pytorch/modules.py: the positional encoding       *)
(* builder, the SinusoidalEncoding layer, the LinearizedConv1d / ConvTBC   *)
(* factories, the HighwayConv1d block and get_mask_from_lengths.           *)
(*                                                                         *)
(* Tensors are modelled with batch size 1 and one channel (in_channels =   *)
(* out_channels = 1, so the block's convolution has the two output         *)
(* channels a and b).  Real numbers are fixed-point integers in units of   *)
(* 1/1000 ("milli"); the framework's sigmoid, sin and cos are integer      *)
(* approximations on that grid.                                            *)
(***************************************************************************)
EXTENDS Integers, Sequences, FiniteSets

VARIABLES
    \* HighwayConv1d
    layer,          \* the block: hyper-parameters and the conv's weights
    input_buffer,   \* self.conv.input_buffer (None or the sliding window)
    fed,            \* history: inputs stepped since the buffer was last cleared
    incOut,         \* history: the outputs of those incremental_forward calls
    hadHistory,     \* history: a non-empty sequence was stepped before the last clear_buffer
    fwdIn,          \* argument of the last forward call
    fwdOut,         \* its result
    \* SinusoidalEncoding and position_encoding_init
    num_embeddings, \* N of the layer
    embedding_dim,  \* D of the layer
    weight,         \* self.weight.data, the stored base table
    initArgs,       \* arguments of the last position_encoding_init call
    position_enc,   \* the table it returned
    encArgs,        \* arguments (x, w) of the last SinusoidalEncoding.forward call
    encTable,       \* the table that call computed from self.weight
    encOut,         \* the rows that call returned
    ncalls,         \* number of SinusoidalEncoding.forward calls so far
    \* get_mask_from_lengths
    memory,         \* the reference tensor (batch, max_time)
    memory_lengths, \* one valid length per batch element
    maskArgs,       \* the arguments as they were when the function was called
    mask,           \* the mask it returned
    \* LinearizedConv1d and ConvTBC
    allocated,      \* number of convolution primitives constructed so far
    facArgs,        \* arguments of the last factory call
    facRet          \* what that call returned or raised

hwVars == <<layer, input_buffer, fed, incOut, hadHistory, fwdIn, fwdOut>>
encVars == <<num_embeddings, embedding_dim, weight, initArgs, position_enc,
             encArgs, encTable, encOut, ncalls>>
maskVars == <<memory, memory_lengths, maskArgs, mask>>
facVars == <<allocated, facArgs, facRet>>

vars == <<hwVars, encVars, maskVars, facVars>>

\* ---------------------------------------------------------------- bounds
MaxT == 4          \* longest input of a forward call
MaxSteps == 5      \* most incremental_forward calls between two clears
MaxKernel == 3     \* largest kernel_size
MaxDilation == 2   \* largest dilation

MaxN == 3          \* largest number of positions
MaxD == 3          \* largest embedding dimension
MaxCalls == 2      \* most SinusoidalEncoding.forward calls followed
MaxBatch == 2      \* largest batch
MaxTime == 3       \* largest max_time
MaxAlloc == 3      \* most factory calls that construct a layer
MaxChannels == 2   \* largest in_channels

InputVals == {-1, 2}    \* values of one input time step (integers, unscaled)

\* Python's None; padding arguments and lengths are never negative
None == -1
PaddingArgs == {None, 1}

\* ---------------------------------------------------------------- helpers
\* f[0] + ... + f[n]
RECURSIVE Sum(_, _)
Sum(f, n) == IF n < 0 THEN 0 ELSE f[n] + Sum(f, n - 1)

SeqsUpTo(S, n) == UNION {[1..m -> S] : m \in 1..n}

\* the two weight rows used for a kernel of K taps (tap k is w[k + 1])
WeightAsc(K) == [k \in 1..K |-> k]
WeightAlt(K) == [k \in 1..K |-> IF k % 2 = 1 THEN 2 ELSE -1]

\* F.sigmoid on an integer argument, result in milli (0 .. 1000)
Sigmoid(b) ==
    LET m == IF b < 0 THEN -b ELSE b
    IN  500 + (500 * b) \div (1 + m)

\* ---------------------------------------------------------------- HighwayConv1d.__init__
\* variant: the causal branch pads like the non-causal one
Padding_CausalHalf(kernel_size, padding, dilation, causal) ==
    IF padding = None
    THEN ((kernel_size - 1) \div 2) * dilation
    ELSE padding

\* variant: (kernel_size - 1) // (2 * dilation) in the non-causal branch
Padding_Precedence(kernel_size, padding, dilation, causal) ==
    IF padding = None
    THEN IF causal
         THEN (kernel_size - 1) * dilation
         ELSE (kernel_size - 1) \div (2 * dilation)
    ELSE padding

Padding(kernel_size, padding, dilation, causal) ==
    IF padding = None
    THEN IF causal
         THEN (kernel_size - 1) * dilation
         ELSE ((kernel_size - 1) \div 2) * dilation
    ELSE padding

HighwayConv1d(kernel_size, padding, dilation, causal, glu, wa, wb) ==
    [kernel_size |-> kernel_size,
     paddingArg  |-> padding,
     padding     |-> Padding(kernel_size, padding, dilation, causal),
     dilation    |-> dilation,
     causal      |-> causal,
     glu         |-> glu,
     dropout     |-> 0,
     wa          |-> wa,
     wb          |-> wb,
     bias        |-> 0]

\* ---------------------------------------------------------------- self.conv(x)
\* length of the convolution's output for an input of T steps (stride 1)
ConvLen(l, T) == T + 2 * l.padding - l.dilation * (l.kernel_size - 1)

\* the zero-padded input, 1-based: padding zeros, the T inputs, padding zeros
XPad(l, x, j) ==
    IF j <= l.padding \/ j > l.padding + Len(x) THEN 0 ELSE x[j - l.padding]

\* one output channel of the cross-correlation with weight row w
ConvChannel(l, w, x) ==
    [t \in 1..ConvLen(l, Len(x)) |->
        l.bias + Sum([k \in 0..(l.kernel_size - 1) |->
                         w[k + 1] * XPad(l, x, t + k * l.dilation)],
                     l.kernel_size - 1)]

\* variant: the causal output is not trimmed
Trim_NoOp(l, c, T) == c

\* variant: x[:, :, -residual.size(-1):], the last T steps are kept
Trim_TakesTail(l, c, T) ==
    IF l.causal /\ Len(c) > T
    THEN [t \in 1..T |-> c[t + Len(c) - T]]
    ELSE c

\* x[:, :, :residual.size(-1)] if self.causal else x
Trim(l, c, T) ==
    IF l.causal
    THEN [t \in 1..(IF Len(c) < T THEN Len(c) ELSE T) |-> c[t]]
    ELSE c

\* F.dropout(x, p, training): the identity in eval mode or with p = 0
Dropout(l, x) == x

\* the gating of one time step: a, b the two conv channels, r the residual;
\* the result is in milli
Gate(l, a, b, r) ==
    IF l.glu
    THEN ((a * Sigmoid(b) + 1000 * r) * 707) \div 1000
    ELSE Sigmoid(b) * a + (1000 - Sigmoid(b)) * r

\* HighwayConv1d.forward: [ok, convLen, y]; ok is FALSE when the framework
\* raises (empty convolution output, or shapes that do not broadcast)
forward(l, x) ==
    LET T  == Len(x)
        xd == Dropout(l, x)
        cl == ConvLen(l, T)
    IN  IF cl < 1
        THEN [ok |-> FALSE, convLen |-> cl, y |-> <<>>]
        ELSE LET a  == Trim(l, ConvChannel(l, l.wa, xd), T)
                 b  == Trim(l, ConvChannel(l, l.wb, xd), T)
                 La == Len(a)
             IN  IF La = T \/ La = 1 \/ T = 1
                 THEN [ok |-> TRUE, convLen |-> cl,
                       y  |-> [t \in 1..(IF La > T THEN La ELSE T) |->
                                 Gate(l, a[IF La = 1 THEN 1 ELSE t],
                                         b[IF La = 1 THEN 1 ELSE t],
                                         x[IF T = 1 THEN 1 ELSE t])]]
                 ELSE [ok |-> FALSE, convLen |-> cl, y |-> <<>>]

\* ---------------------------------------------------------------- self.conv.incremental_forward(x)
\* the sliding window covers the kernel's receptive field
BufferLen(l) == (l.kernel_size - 1) * l.dilation + 1

\* one step of the convolution: the new buffer and the two output channels
ConvIncrementalForward(l, buf, v) ==
    LET n   == BufferLen(l)
        nb  == IF buf = <<>>
               THEN [j \in 1..n |-> IF j = n THEN v ELSE 0]
               ELSE [j \in 1..n |-> IF j = n THEN v ELSE buf[j + 1]]
        tap(w) == l.bias + Sum([k \in 0..(l.kernel_size - 1) |->
                                   w[k + 1] * nb[1 + k * l.dilation]],
                               l.kernel_size - 1)
    IN  [buf |-> nb, a |-> tap(l.wa), b |-> tap(l.wb)]

\* HighwayConv1d.incremental_forward on one time step v
incremental_forward(l, buf, v) ==
    LET c == ConvIncrementalForward(l, buf, Dropout(l, <<v>>)[1])
    IN  [buf |-> c.buf, y |-> Gate(l, c.a, c.b, v)]

\* the outputs of stepping xs, in order, through a layer whose buffer is buf
RECURSIVE Steps(_, _, _)
Steps(l, buf, xs) ==
    IF xs = <<>> THEN <<>>
    ELSE LET r == incremental_forward(l, buf, Head(xs))
         IN  <<r.y>> \o Steps(l, r.buf, Tail(xs))

\* self.conv.clear_buffer()
ConvClearBuffer == input_buffer' = <<>>

\* ---------------------------------------------------------------- actions
HwInitOver(kernels, dilations, paddings, flags) ==
    /\ \E K \in kernels, d \in dilations, p \in paddings,
          causal \in flags, glu \in flags, flip \in flags :
          layer = HighwayConv1d(K, p, d, causal, glu,
                                IF flip THEN WeightAlt(K) ELSE WeightAsc(K),
                                IF flip THEN WeightAsc(K) ELSE WeightAlt(K))
    /\ input_buffer = <<>>
    /\ fed = <<>>
    /\ incOut = <<>>
    /\ hadHistory = FALSE
    /\ fwdIn = <<>>
    /\ fwdOut = [ok |-> FALSE, convLen |-> 0, y |-> <<>>]

HwInit == HwInitOver(1..MaxKernel, 1..MaxDilation, PaddingArgs, BOOLEAN)
HwIdle == HwInitOver({1}, {1}, {None}, {FALSE})

Forward ==
    \E x \in SeqsUpTo(InputVals, MaxT) :
        /\ fwdIn' = x
        /\ fwdOut' = forward(layer, x)
        /\ UNCHANGED <<layer, input_buffer, fed, incOut, hadHistory>>

IncrementalForward ==
    \E v \in InputVals :
        /\ Len(fed) < MaxSteps
        /\ LET r == incremental_forward(layer, input_buffer, v)
           IN  /\ input_buffer' = r.buf
               /\ incOut' = Append(incOut, r.y)
        /\ fed' = Append(fed, v)
        /\ UNCHANGED <<layer, hadHistory, fwdIn, fwdOut>>

\* variant: the block does not forward the call to its convolution
clear_buffer_NoDelegate ==
    /\ UNCHANGED input_buffer
    /\ hadHistory' = (hadHistory \/ fed # <<>>)
    /\ fed' = <<>>
    /\ incOut' = <<>>
    /\ UNCHANGED <<layer, fwdIn, fwdOut>>

clear_buffer ==
    /\ ConvClearBuffer
    /\ hadHistory' = (hadHistory \/ fed # <<>>)
    /\ fed' = <<>>
    /\ incOut' = <<>>
    /\ UNCHANGED <<layer, fwdIn, fwdOut>>

\* ---------------------------------------------------------------- floats
\* IEEE special values of a float; every other float is an integer in milli
NaN == -1000000000
Inf == 1000000000

IsFinite(v) == v # NaN /\ v # Inf

\* the float product w * v of two milli values
FMul(w, v) ==
    IF w = NaN \/ v = NaN THEN NaN
    ELSE IF w = Inf \/ v = Inf
         THEN IF w = 0 \/ v = 0 THEN NaN ELSE Inf
         ELSE (w * v + 500) \div 1000

\* the argument reduced to (-3142, 3142], i.e. (-pi, pi]
Reduce(v) ==
    LET r == v % 6283
    IN  IF r > 3142 THEN r - 6283 ELSE r

\* torch.sin of a milli value, in milli
Sin(v) ==
    IF ~IsFinite(v) THEN NaN
    ELSE LET r0 == Reduce(v)
             r  == IF r0 > 1571 THEN 3142 - r0
                   ELSE IF r0 < -1571 THEN -3142 - r0 ELSE r0
             r2 == (r * r) \div 1000
             t3 == (r * r2) \div 1000
             t5 == (t3 * r2) \div 1000
             t7 == (t5 * r2) \div 1000
         IN  r - (t3 \div 6) + (t5 \div 120) - (t7 \div 5040)

\* torch.cos of a milli value, in milli
Cos(v) ==
    IF ~IsFinite(v) THEN NaN
    ELSE LET r0 == Reduce(v)
             m  == IF r0 < 0 THEN -r0 ELSE r0
             r  == IF m > 1571 THEN 3142 - m ELSE m
             r2 == (r * r) \div 1000
             r4 == (r2 * r2) \div 1000
             r6 == (r4 * r2) \div 1000
             c  == 1000 - (r2 \div 2) + (r4 \div 24) - (r6 \div 720)
         IN  IF m > 1571 THEN -c ELSE c

\* np.power(10000, 2 * i / d_pos_vec), rounded to an integer
Pow10000(i, d_pos_vec) ==
    LET tbl == << <<1>>,
                  <<1, 10000>>,
                  <<1, 464, 215443>>,
                  <<1, 100, 10000, 1000000>>,
                  <<1, 40, 1585, 63096, 2511886>> >>
    IN  tbl[d_pos_vec][i + 1]

\* .float(): the float64 value (in micro) rounded to a float32 (in milli)
Float32(v) == IF IsFinite(v) THEN (v + 500) \div 1000 ELSE v

\* ---------------------------------------------------------------- position_encoding_init
\* the float64 entry position_rate * pos / np.power(...), in micro
RawEntry(position_rate, pos, i, d_pos_vec) ==
    IF IsFinite(position_rate)
    THEN (position_rate * pos * 1000) \div Pow10000(i, d_pos_vec)
    ELSE position_rate

position_encoding_init(n_position, d_pos_vec, position_rate, sinusoidal) ==
    LET enc == [pos \in 0..(n_position - 1) |->
                  [i \in 0..(d_pos_vec - 1) |->
                     IF pos # 0
                     THEN Float32(RawEntry(position_rate, pos, i, d_pos_vec))
                     ELSE 0]]
    IN  IF sinusoidal
        THEN [pos \in 0..(n_position - 1) |->
                [i \in 0..(d_pos_vec - 1) |->
                   IF pos >= 1
                   THEN IF i % 2 = 0 THEN Sin(enc[pos][i]) ELSE Cos(enc[pos][i])
                   ELSE enc[pos][i]]]
        ELSE enc

\* ---------------------------------------------------------------- sinusoidal_encode
\* variant: y[0:, ...], row 0 is transformed too
sinusoidal_encode_AllRows(x, w) ==
    LET y0 == [pos \in DOMAIN x |-> [i \in DOMAIN x[pos] |-> FMul(w, x[pos][i])]]
    IN  [y |-> [pos \in DOMAIN x |->
                  [i \in DOMAIN x[pos] |->
                     IF i % 2 = 0 THEN Sin(y0[pos][i]) ELSE Cos(y0[pos][i])]],
         x |-> x]

\* variant: y = w * x without the clone, the argument is overwritten
sinusoidal_encode_InPlace(x, w) ==
    LET y0 == [pos \in DOMAIN x |-> [i \in DOMAIN x[pos] |-> FMul(w, x[pos][i])]]
        y  == [pos \in DOMAIN x |->
                  [i \in DOMAIN x[pos] |->
                     IF pos >= 1
                     THEN IF i % 2 = 0 THEN Sin(y0[pos][i]) ELSE Cos(y0[pos][i])
                     ELSE y0[pos][i]]]
    IN  [y |-> y, x |-> y]

\* y is the returned table; x is the argument's storage after the call
sinusoidal_encode(x, w) ==
    LET y0 == [pos \in DOMAIN x |-> [i \in DOMAIN x[pos] |-> FMul(w, x[pos][i])]]
    IN  [y |-> [pos \in DOMAIN x |->
                  [i \in DOMAIN x[pos] |->
                     IF pos >= 1
                     THEN IF i % 2 = 0 THEN Sin(y0[pos][i]) ELSE Cos(y0[pos][i])
                     ELSE y0[pos][i]]],
         x |-> x]

\* ---------------------------------------------------------------- SinusoidalEncoding
\* variant: the stored weight is built with sinusoidal=True
SinusoidalEncodingInit_Sinusoidal(n, d) == position_encoding_init(n, d, 1000, TRUE)

\* __init__: the stored weight
SinusoidalEncodingInit(n, d) == position_encoding_init(n, d, 1000, FALSE)

\* the embedding lookup of the index tensor x into a table
EmbeddingApply(x, table) == [j \in 1..Len(x) |-> table[x[j]]]

\* forward: the table computed, the rows returned, self.weight afterwards
SinusoidalEncodingForward(w_stored, x, w) ==
    LET r == sinusoidal_encode(w_stored, w)
    IN  [table |-> r.y, out |-> EmbeddingApply(x, r.y), weight |-> r.x]

PositionRates == {1000, 2000, Inf}
Scales == {-1000, 1000, 2000, Inf}

EncInitOver(positions, dims) ==
    /\ num_embeddings \in positions
    /\ embedding_dim \in dims
    /\ weight = SinusoidalEncodingInit(num_embeddings, embedding_dim)
    /\ initArgs = [called |-> FALSE, n |-> 0, d |-> 0, rate |-> 0, sinusoidal |-> FALSE]
    /\ position_enc = <<>>
    /\ encArgs = [x |-> <<>>, w |-> 0]
    /\ encTable = <<>>
    /\ encOut = <<>>
    /\ ncalls = 0

EncInit == EncInitOver(1..MaxN, 1..MaxD)
EncIdle == EncInitOver({1}, {1})

PositionEncodingInit ==
    \E rate \in PositionRates, s \in BOOLEAN :
        /\ initArgs' = [called |-> TRUE, n |-> num_embeddings,
                        d |-> embedding_dim, rate |-> rate, sinusoidal |-> s]
        /\ position_enc' = position_encoding_init(num_embeddings, embedding_dim,
                                                  rate, s)
        /\ UNCHANGED <<num_embeddings, embedding_dim, weight, encArgs,
                       encTable, encOut, ncalls>>

EncForward ==
    \E x \in SeqsUpTo(0..(num_embeddings - 1), 2), w \in Scales :
        /\ ncalls < MaxCalls
        /\ LET r == SinusoidalEncodingForward(weight, x, w)
           IN  /\ encTable' = r.table
               /\ encOut' = r.out
               /\ weight' = r.weight
        /\ encArgs' = [x |-> x, w |-> w]
        /\ ncalls' = ncalls + 1
        /\ UNCHANGED <<num_embeddings, embedding_dim, initArgs, position_enc>>

\* ---------------------------------------------------------------- get_mask_from_lengths
\* mask[idx][:l] = 1 for each (idx, l) of enumerate(memory_lengths)
RECURSIVE MaskLoop(_, _, _)
MaskLoop(m, lengths, idx) ==
    IF idx \notin DOMAIN lengths THEN m
    ELSE MaskLoop([m EXCEPT ![idx] =
                      [t \in DOMAIN m[idx] |->
                          IF t < lengths[idx] THEN 1 ELSE m[idx][t]]],
                  lengths, idx + 1)

\* ~mask on a byte tensor of zeros and ones
ByteInvert(m) == [b \in DOMAIN m |-> [t \in DOMAIN m[b] |-> 1 - m[b][t]]]

\* variant: the mask is returned without the inversion
get_mask_from_lengths_NoInvert(mem, lengths) ==
    LET zero == [b \in DOMAIN mem |-> [t \in DOMAIN mem[b] |-> 0]]
    IN  [mask |-> MaskLoop(zero, lengths, 0),
         memory |-> mem,
         memory_lengths |-> lengths]

\* the mask returned, and the two arguments after the call
get_mask_from_lengths(mem, lengths) ==
    LET zero == [b \in DOMAIN mem |-> [t \in DOMAIN mem[b] |-> 0]]
    IN  [mask |-> ByteInvert(MaskLoop(zero, lengths, 0)),
         memory |-> mem,
         memory_lengths |-> lengths]

MemoryVals == {0, 7}

MaskInitOver(batches, times, vals, minLen) ==
    /\ \E B \in batches, T \in times, v \in vals :
          /\ memory = [b \in 0..(B - 1) |-> [t \in 0..(T - 1) |-> v]]
          /\ memory_lengths \in [0..(B - 1) -> minLen..T]
    /\ maskArgs = [called |-> FALSE, memory |-> <<>>, memory_lengths |-> <<>>]
    /\ mask = <<>>

MaskInit == MaskInitOver(1..MaxBatch, 1..MaxTime, MemoryVals, 0)
MaskIdle == MaskInitOver({1}, {1}, {0}, 1)

GetMaskFromLengths ==
    /\ LET r == get_mask_from_lengths(memory, memory_lengths)
       IN  /\ mask' = r.mask
           /\ memory' = r.memory
           /\ memory_lengths' = r.memory_lengths
    /\ maskArgs' = [called |-> TRUE, memory |-> memory,
                    memory_lengths |-> memory_lengths]

\* ---------------------------------------------------------------- LinearizedConv1d, ConvTBC
\* what a factory call returns or raises, and the number of primitives
\* constructed after it; std_mul = 4.0 and dropout = 0 are the defaults
LinearizedConv1d(in_channels, out_channels, kernel_size, dilation, alloc) ==
    IF dilation # 1
    THEN [ret |-> [kind |-> "AssertionError"], allocated |-> alloc]
    ELSE [ret |-> [kind |-> "LinearizedConvolution",
                   in_channels |-> in_channels,
                   out_channels |-> out_channels,
                   kernel_size |-> kernel_size,
                   var_num |-> 4, var_den |-> kernel_size * in_channels,
                   bias |-> 0, weight_norm_dim |-> 0],
          allocated |-> alloc + 1]

\* variant: the assertion follows the construction of the primitive
ConvTBC_LateAssert(in_channels, out_channels, kernel_size, dilation, alloc) ==
    IF dilation # 1
    THEN [ret |-> [kind |-> "AssertionError"], allocated |-> alloc + 1]
    ELSE [ret |-> [kind |-> "ConvTBC",
                   in_channels |-> in_channels,
                   out_channels |-> out_channels,
                   kernel_size |-> kernel_size,
                   var_num |-> 4, var_den |-> kernel_size * in_channels,
                   bias |-> 0, weight_norm_dim |-> 2],
          allocated |-> alloc + 1]

ConvTBC(in_channels, out_channels, kernel_size, dilation, alloc) ==
    IF dilation # 1
    THEN [ret |-> [kind |-> "AssertionError"], allocated |-> alloc]
    ELSE [ret |-> [kind |-> "ConvTBC",
                   in_channels |-> in_channels,
                   out_channels |-> out_channels,
                   kernel_size |-> kernel_size,
                   var_num |-> 4, var_den |-> kernel_size * in_channels,
                   bias |-> 0, weight_norm_dim |-> 2],
          allocated |-> alloc + 1]

FacInit ==
    /\ allocated = 0
    /\ facArgs = [factory |-> "none", in_channels |-> 0, out_channels |-> 0,
                  kernel_size |-> 0, dilation |-> 0, allocBefore |-> 0]
    /\ facRet = [kind |-> "none"]

CallLinearizedConv1d ==
    \E c \in 1..MaxChannels, o \in 1..MaxChannels, K \in 1..MaxKernel,
       d \in 1..(MaxDilation + 1) :
        /\ allocated < MaxAlloc
        /\ LET r == LinearizedConv1d(c, o, K, d, allocated)
           IN  /\ facRet' = r.ret
               /\ allocated' = r.allocated
        /\ facArgs' = [factory |-> "LinearizedConv1d", in_channels |-> c,
                       out_channels |-> o, kernel_size |-> K, dilation |-> d,
                       allocBefore |-> allocated]

CallConvTBC ==
    \E c \in 1..MaxChannels, o \in 1..MaxChannels, K \in 1..MaxKernel,
       d \in 1..(MaxDilation + 1) :
        /\ allocated < MaxAlloc
        /\ LET r == ConvTBC(c, o, K, d, allocated)
           IN  /\ facRet' = r.ret
               /\ allocated' = r.allocated
        /\ facArgs' = [factory |-> "ConvTBC", in_channels |-> c,
                       out_channels |-> o, kernel_size |-> K, dilation |-> d,
                       allocBefore |-> allocated]

\* ---------------------------------------------------------------- specifications
\* the incremental (decoding) path of one block
HwNext ==
    \/ IncrementalForward /\ UNCHANGED <<encVars, maskVars, facVars>>
    \/ clear_buffer /\ UNCHANGED <<encVars, maskVars, facVars>>

InitHighway == HwInit /\ EncIdle /\ MaskIdle /\ FacInit

SpecHighway == InitHighway /\ [][HwNext]_vars

\* the whole-sequence path of one block
FwdNext == Forward /\ UNCHANGED <<encVars, maskVars, facVars>>

InitForward == HwInit /\ EncIdle /\ MaskIdle /\ FacInit

SpecForward == InitForward /\ [][FwdNext]_vars

\* the positional encodings
EncNext ==
    \/ PositionEncodingInit /\ UNCHANGED <<hwVars, maskVars, facVars>>
    \/ EncForward /\ UNCHANGED <<hwVars, maskVars, facVars>>

InitEncoding == HwIdle /\ EncInit /\ MaskIdle /\ FacInit

SpecEncoding == InitEncoding /\ [][EncNext]_vars

\* the mask helper
MaskNext == GetMaskFromLengths /\ UNCHANGED <<hwVars, encVars, facVars>>

InitMask == HwIdle /\ EncIdle /\ MaskInit /\ FacInit

SpecMask == InitMask /\ [][MaskNext]_vars

\* the factories
FacNext ==
    \/ CallLinearizedConv1d /\ UNCHANGED <<hwVars, encVars, maskVars>>
    \/ CallConvTBC /\ UNCHANGED <<hwVars, encVars, maskVars>>

InitFactory == HwIdle /\ EncIdle /\ MaskIdle /\ FacInit

SpecFactory == InitFactory /\ [][FacNext]_vars

\* ---------------------------------------------------------------- claims: HighwayConv1d
DerivedPadding == layer.paddingArg = None

\* C1 (as stated): for any block, stepping a sequence through
\* incremental_forward from a cleared buffer gives, concatenated, the result
\* of one forward call over the whole sequence.
C1_AsStated ==
    fed # <<>> =>
        /\ forward(layer, fed).ok
        /\ incOut = forward(layer, fed).y

\* C1 (amended): the same equality for blocks with the constructor-derived
\* padding that are causal or have kernel size 1.
C1_IncrementalEqualsForward ==
    (fed # <<>> /\ DerivedPadding /\ (layer.causal \/ layer.kernel_size = 1)) =>
        /\ forward(layer, fed).ok
        /\ incOut = forward(layer, fed).y

C1_Witness ==
    /\ Len(fed) >= MaxSteps
    /\ DerivedPadding
    /\ layer.causal
    /\ layer.kernel_size >= 3
    /\ layer.dilation >= 2
    /\ incOut = forward(layer, fed).y

\* C2: after clear_buffer the outputs of the following incremental_forward
\* calls are those of a layer with the same weights that was never stepped,
\* whatever was stepped before the clear.
C2_ClearForgetsHistory ==
    hadHistory => incOut = Steps(layer, <<>>, fed)

C2_Witness ==
    /\ hadHistory
    /\ Len(fed) >= 2
    /\ layer.kernel_size >= 2
    /\ \E j \in 1..Len(input_buffer) : input_buffer[j] = 0

\* C3: a causal block with the constructor-derived padding returns from
\* forward an output with as many time steps as its input.
C3_CausalKeepsLength ==
    (fwdIn # <<>> /\ layer.causal /\ DerivedPadding) =>
        /\ fwdOut.ok
        /\ Len(fwdOut.y) = Len(fwdIn)

C3_Witness ==
    /\ Len(fwdIn) >= 2
    /\ layer.causal
    /\ DerivedPadding
    /\ layer.kernel_size >= 2
    /\ fwdOut.convLen > Len(fwdIn)
    /\ Len(fwdOut.y) = Len(fwdIn)

\* C4: in a causal block with the constructor-derived padding, the output
\* of forward at step t is the same for any two inputs of equal length that
\* agree on steps 1..t.
C4_NoFutureDependence ==
    (fwdIn # <<>> /\ layer.causal /\ DerivedPadding) =>
        \A x2 \in [1..Len(fwdIn) -> InputVals] :
            \A t \in 1..Len(fwdIn) :
                (\A s \in 1..t : x2[s] = fwdIn[s]) =>
                    forward(layer, x2).y[t] = fwdOut.y[t]

C4_Witness ==
    /\ Len(fwdIn) >= 3
    /\ layer.causal
    /\ DerivedPadding
    /\ layer.kernel_size >= 2
    /\ \E x2 \in [1..Len(fwdIn) -> InputVals] :
          /\ x2[1] = fwdIn[1]
          /\ x2[2] # fwdIn[2]
          /\ forward(layer, x2).y[1] = fwdOut.y[1]
          /\ forward(layer, x2).y[2] # fwdOut.y[2]

\* C9: in a non-causal block with the constructor-derived padding and an
\* odd kernel size, the convolution inside forward keeps the input's time
\* length, so the residual combination is shape-valid and the output has
\* that length too.
C9_NonCausalOddKeepsLength ==
    (fwdIn # <<>> /\ ~layer.causal /\ DerivedPadding
        /\ layer.kernel_size % 2 = 1) =>
        /\ fwdOut.convLen = Len(fwdIn)
        /\ fwdOut.ok
        /\ Len(fwdOut.y) = Len(fwdIn)

C9_Witness ==
    /\ Len(fwdIn) >= 2
    /\ ~layer.causal
    /\ DerivedPadding
    /\ layer.kernel_size = 3
    /\ layer.dilation >= 2
    /\ fwdOut.ok
    /\ Len(fwdOut.y) = Len(fwdIn)

\* ---------------------------------------------------------------- claims: the other components
Row0IsZero(table) == \A i \in DOMAIN table[0] : table[0][i] = 0

\* C5: the mask has shape (batch, max_time), entry (b, t) is false (0) when
\* t < memory_lengths[b] and true (1) otherwise, and the call leaves the
\* reference tensor and the length vector as they were.
C5_MaskFromLengths ==
    maskArgs.called =>
        /\ DOMAIN mask = DOMAIN memory
        /\ \A b \in DOMAIN memory :
              /\ DOMAIN mask[b] = DOMAIN memory[b]
              /\ \A t \in DOMAIN memory[b] :
                    mask[b][t] = (IF t < memory_lengths[b] THEN 0 ELSE 1)
        /\ memory = maskArgs.memory
        /\ memory_lengths = maskArgs.memory_lengths

\* lengths [2, 3] with max_time 3 give [[False, False, True], [False, False, False]]
C5_Witness ==
    /\ maskArgs.called
    /\ DOMAIN memory = 0..1
    /\ DOMAIN memory[0] = 0..2
    /\ memory_lengths[0] = 2
    /\ memory_lengths[1] = 3
    /\ mask[0] = [t \in 0..2 |-> IF t = 2 THEN 1 ELSE 0]
    /\ mask[1] = [t \in 0..2 |-> 0]

\* C6 (as stated): row 0 of the table position_encoding_init returns is the
\* zero vector, and so is row 0 of the table SinusoidalEncoding.forward
\* computes, for every scale w.
C6_AsStated ==
    /\ initArgs.called => Row0IsZero(position_enc)
    /\ ncalls >= 1 => Row0IsZero(encTable)

\* C6 (amended): row 0 of the table position_encoding_init returns is the
\* zero vector for every N, D, position_rate and sinusoidal flag, and row 0
\* of the table SinusoidalEncoding.forward computes is the zero vector for
\* every finite scale w.
C6_Row0Zero ==
    /\ initArgs.called =>
          /\ DOMAIN position_enc = 0..(initArgs.n - 1)
          /\ DOMAIN position_enc[0] = 0..(initArgs.d - 1)
          /\ Row0IsZero(position_enc)
    /\ (ncalls >= 1 /\ IsFinite(encArgs.w)) =>
          /\ DOMAIN encTable[0] = 0..(embedding_dim - 1)
          /\ Row0IsZero(encTable)

C6_Witness ==
    /\ initArgs.called
    /\ initArgs.sinusoidal
    /\ initArgs.n >= 2
    /\ initArgs.d = 3
    /\ position_enc[1][1] # 0
    /\ ncalls >= 1
    /\ encArgs.w = 2000
    /\ num_embeddings >= 2
    /\ embedding_dim >= 2
    /\ encTable[1][1] # 0

\* C7: the table SinusoidalEncoding.forward computes with w = 1.0 from the
\* stored base weight equals, entry for entry, the table
\* position_encoding_init returns with sinusoidal=True and position_rate=1.0.
C7_ForwardReproducesSinusoidalTable ==
    (ncalls >= 1 /\ encArgs.w = 1000) =>
        encTable = position_encoding_init(num_embeddings, embedding_dim, 1000, TRUE)

C7_Witness ==
    /\ ncalls >= 1
    /\ encArgs.w = 1000
    /\ num_embeddings >= 3
    /\ embedding_dim >= 3
    /\ encTable[2][0] # weight[2][0]
    /\ encTable = position_encoding_init(num_embeddings, embedding_dim, 1000, TRUE)

\* C8: a factory call with dilation other than 1 raises before a primitive
\* is constructed and returns no layer; a call with dilation 1 returns a layer.
C8_DilationAssert ==
    facArgs.factory # "none" =>
        IF facArgs.dilation # 1
        THEN /\ facRet.kind = "AssertionError"
             /\ allocated = facArgs.allocBefore
        ELSE /\ facRet.kind \in {"LinearizedConvolution", "ConvTBC"}
             /\ allocated = facArgs.allocBefore + 1

C8_Witness ==
    /\ facArgs.factory = "ConvTBC"
    /\ facArgs.dilation = 2
    /\ facRet.kind = "AssertionError"
    /\ allocated >= 1

\* C10: after any sequence of SinusoidalEncoding.forward calls the stored
\* weight is the table set at construction, and the rows a call returns are
\* determined by that call's own x and w.
C10_ForwardKeepsWeight ==
    /\ weight = position_encoding_init(num_embeddings, embedding_dim, 1000, FALSE)
    /\ ncalls >= 1 =>
          encOut = EmbeddingApply(encArgs.x,
                      sinusoidal_encode(
                          position_encoding_init(num_embeddings, embedding_dim,
                                                 1000, FALSE),
                          encArgs.w).y)

C10_Witness ==
    /\ ncalls >= 2
    /\ num_embeddings >= 2
    /\ encArgs.w = 2000
    /\ encTable # weight
    /\ Len(encArgs.x) >= 2
====
